---------------------------- MODULE Spec2Model ----------------------------
(***************************************************************************)
(* GOACSHandler of preview_server.py: the preview server of the GO-ACS web *)
(* UI.  The handler routes a request by string tests on the path of its    *)
(* target and answers with a template or static file read from the disk,   *)
(* or with a literal JSON fixture.                                         *)
(*                                                                         *)
(* Strings the code takes apart or builds (request targets, file paths,    *)
(* user names, passwords, tokens) are sequences of one-character strings.  *)
(* Literals that are only passed through to the JSON body are TLA+         *)
(* strings; a Python float literal is the string of its decimal text.  The *)
(* element "sup2" stands for the one character U+00B2 (byte 0xB2 of a      *)
(* request line, which http.server decodes as iso-8859-1).                 *)
(***************************************************************************)
EXTENDS Integers, Sequences, FiniteSets, TLC

VARIABLES
    fs,       \* the disk below the working directory (os.chdir, line 12): what
              \* it holds ("file", "dir", "absent") under the paths that are
              \* not the same on every disk; the server only reads it
    served    \* the exchanges of serve_forever so far: <<[req, resp], ...>>

vars == <<fs, served>>

---------------------------------------------------------------------------
(* Bounds of the model.                                                    *)

\* Spec: requests served in one run, over the whole request universe.
MaxRequests == 1
\* SpecSeq: requests served in one run, over RepeatRequests.
MaxRepeat == 3

---------------------------------------------------------------------------
(* Python string operations used by the handler.                           *)

MinOf(S) == CHOOSE x \in S : \A y \in S : x <= y
MaxOf(S) == CHOOSE x \in S : \A y \in S : x >= y

\* str.startswith
startswith(s, p) == Len(s) >= Len(p) /\ SubSeq(s, 1, Len(p)) = p
\* str.endswith
endswith(s, p) == Len(s) >= Len(p) /\ SubSeq(s, Len(s) - Len(p) + 1, Len(s)) = p
\* the `in` operator on two strings
contains(s, p) ==
    \E i \in 1..(Len(s) - Len(p) + 1) : SubSeq(s, i, i + Len(p) - 1) = p
\* str.rfind(c) + 1: the 1-based index of the last c, 0 when there is none
rfind(s, c) ==
    LET idx == {i \in 1..Len(s) : s[i] = c}
    IN  IF idx = {} THEN 0 ELSE MaxOf(idx)
\* s up to, not including, the first character of s that is in stops
CutAt(s, stops) ==
    LET idx == {i \in 1..Len(s) : s[i] \in stops}
    IN  IF idx = {} THEN s ELSE SubSeq(s, 1, MinOf(idx) - 1)

\* urlparse(target).path for a target that starts with a single "/": urlsplit
\* cuts the fragment at the first "#" and the query at the first "?", then
\* urlparse cuts the parameters at the first ";" of the last path segment.
urlparse_path(target) ==
    LET url == CutAt(target, {"#", "?"})
        r == rfind(url, "/")
        idx == {i \in (r + 1)..Len(url) : url[i] = ";"}
    IN  IF idx = {} THEN url ELSE SubSeq(url, 1, MinOf(idx) - 1)

\* path.split('/')[-1]
last_segment(path) == SubSeq(path, rfind(path, "/") + 1, Len(path))

DecimalChars == <<"0", "1", "2", "3", "4", "5", "6", "7", "8", "9">>
IsDecimal(c) == \E d \in 1..10 : DecimalChars[d] = c
\* str.isdigit: true of a non-empty string of characters with the Unicode digit
\* property, which the superscript digits have as well as the decimal ones.
isdigit(s) == Len(s) > 0 /\ \A i \in 1..Len(s) : IsDecimal(s[i]) \/ s[i] = "sup2"

DigitValue(c) == (CHOOSE d \in 1..10 : DecimalChars[d] = c) - 1
RECURSIVE DecimalValue(_)
DecimalValue(s) ==
    IF s = <<>> THEN 0
    ELSE 10 * DecimalValue(SubSeq(s, 1, Len(s) - 1)) + DigitValue(s[Len(s)])
\* int(s) for an s that passed isdigit: the value of a decimal numeral;
\* ValueError (ok = FALSE) on any other character.
int(s) ==
    IF \A i \in 1..Len(s) : IsDecimal(s[i])
    THEN [ok |-> TRUE, value |-> DecimalValue(s)]
    ELSE [ok |-> FALSE, value |-> 0]

UpperChars == <<"A","B","C","D","E","F","G","H","I","J","K","L","M",
                "N","O","P","Q","R","S","T","U","V","W","X","Y","Z">>
LowerChars == <<"a","b","c","d","e","f","g","h","i","j","k","l","m",
                "n","o","p","q","r","s","t","u","v","w","x","y","z">>
\* str.lower
lower(s) ==
    [i \in 1..Len(s) |->
        IF \E k \in 1..26 : UpperChars[k] = s[i]
        THEN LowerChars[CHOOSE k \in 1..26 : UpperChars[k] = s[i]]
        ELSE s[i]]
\* str(n) for n >= 0, as the f-string of the token formats the customer id
RECURSIVE str(_)
str(n) ==
    IF n < 10 THEN <<DecimalChars[n + 1]>>
    ELSE str(n \div 10) \o <<DecimalChars[(n % 10) + 1]>>

---------------------------------------------------------------------------
(* The disk.                                                               *)

\* The templates the page routes of do_GET name.
Templates == {
    <<"w","e","b","/","t","e","m","p","l","a","t","e","s","/","i","n","d","e","x",".","h","t","m","l">>, <<"w","e","b","/","t","e","m","p","l","a","t","e","s","/","d","a","s","h","b","o","a","r","d",".","h","t","m","l">>,
    <<"w","e","b","/","t","e","m","p","l","a","t","e","s","/","d","e","v","i","c","e","s",".","h","t","m","l">>, <<"w","e","b","/","t","e","m","p","l","a","t","e","s","/","d","e","v","i","c","e","-","d","e","t","a","i","l",".","h","t","m","l">>,
    <<"w","e","b","/","t","e","m","p","l","a","t","e","s","/","p","r","o","v","i","s","i","o","n","s",".","h","t","m","l">>, <<"w","e","b","/","t","e","m","p","l","a","t","e","s","/","m","a","p",".","h","t","m","l">>,
    <<"w","e","b","/","t","e","m","p","l","a","t","e","s","/","c","u","s","t","o","m","e","r","s",".","h","t","m","l">>, <<"w","e","b","/","t","e","m","p","l","a","t","e","s","/","b","i","l","l","i","n","g",".","h","t","m","l">>,
    <<"w","e","b","/","t","e","m","p","l","a","t","e","s","/","p","o","r","t","a","l",".","h","t","m","l">>, <<"w","e","b","/","t","e","m","p","l","a","t","e","s","/","p","o","r","t","a","l","-","l","o","g","i","n",".","h","t","m","l">>,
    <<"w","e","b","/","t","e","m","p","l","a","t","e","s","/","p","a","c","k","a","g","e","s",".","h","t","m","l">>, <<"w","e","b","/","t","e","m","p","l","a","t","e","s","/","t","a","s","k","s",".","h","t","m","l">>,
    <<"w","e","b","/","t","e","m","p","l","a","t","e","s","/","l","o","g","s",".","h","t","m","l">>, <<"w","e","b","/","t","e","m","p","l","a","t","e","s","/","s","e","t","t","i","n","g","s",".","h","t","m","l">> }

\* The pages the start-up banner advertises (Web UI, Dashboard, Devices,
\* Packages, Customers, Billing, Map): their templates ship with the server.
RepoFiles == {
    <<"w","e","b","/","t","e","m","p","l","a","t","e","s","/","i","n","d","e","x",".","h","t","m","l">>, <<"w","e","b","/","t","e","m","p","l","a","t","e","s","/","d","a","s","h","b","o","a","r","d",".","h","t","m","l">>,
    <<"w","e","b","/","t","e","m","p","l","a","t","e","s","/","d","e","v","i","c","e","s",".","h","t","m","l">>, <<"w","e","b","/","t","e","m","p","l","a","t","e","s","/","p","a","c","k","a","g","e","s",".","h","t","m","l">>,
    <<"w","e","b","/","t","e","m","p","l","a","t","e","s","/","c","u","s","t","o","m","e","r","s",".","h","t","m","l">>, <<"w","e","b","/","t","e","m","p","l","a","t","e","s","/","b","i","l","l","i","n","g",".","h","t","m","l">>,
    <<"w","e","b","/","t","e","m","p","l","a","t","e","s","/","m","a","p",".","h","t","m","l">> }

StaticDir == <<"w","e","b","/","s","t","a","t","i","c","/">>
StyleSheet == <<"w","e","b","/","s","t","a","t","i","c","/","c","s","s","/","s","t","y","l","e",".","c","s","s">>
Favicon == <<"f","a","v","i","c","o","n",".","i","c","o">>

\* What the disk holds under a path written as below (a directory with its
\* final "/"): the shipped templates are files in their directories; a path
\* that is none of those below is on no disk.
Entry(f) ==
    IF f \in RepoFiles THEN "file"
    ELSE IF f \in {<<"w","e","b","/">>, <<"w","e","b","/","t","e","m","p","l","a","t","e","s","/">>} THEN "dir"
    ELSE IF f \in Templates THEN fs.templates
    ELSE IF f = StaticDir THEN fs.static_dir
    ELSE IF f = <<"w","e","b","/","s","t","a","t","i","c","/","c","s","s","/">> /\ fs.style_sheet = "file" THEN "dir"
    ELSE IF f = StyleSheet THEN fs.style_sheet
    ELSE IF f = Favicon THEN fs.favicon
    ELSE "absent"

\* The disks a run may start on: the templates that are not shipped are all
\* there or all missing; web/static/ is missing, empty, or holds
\* css/style.css; favicon.ico is there or not.
Disks ==
    {[templates |-> t, static_dir |-> d[1], style_sheet |-> d[2], favicon |-> i] :
        t \in {"file", "absent"},
        d \in {<<"absent", "absent">>, <<"dir", "absent">>, <<"dir", "file">>},
        i \in {"file", "absent"}}

\* What the disk holds under a path; a directory's path may lack its final "/".
Kind(f) ==
    IF Entry(f) # "absent" THEN Entry(f)
    ELSE IF Entry(f \o <<"/">>) = "dir" THEN "dir"
    ELSE "absent"
\* os.path.exists
exists(f) == Kind(f) # "absent"
\* os.path.isdir
isdir(f) == Kind(f) = "dir"

---------------------------------------------------------------------------
(* Responses.  status 0 with via "raise" is an exception that leaves the   *)
(* handler: socketserver closes the connection and nothing is sent.        *)

JObject(v) == [type |-> "object", val |-> v]    \* json.dumps of a dict
JArray(v) == [type |-> "array", val |-> v]      \* json.dumps of a list

Raise ==
    [status |-> 0, ctype |-> "", cors |-> "",
     body |-> [type |-> "none", val |-> <<>>], via |-> "raise"]

\* send_error(code): the error page of BaseHTTPRequestHandler
send_error(code, what, via) ==
    [status |-> code, ctype |-> "text/html;charset=utf-8", cors |-> "",
     body |-> [type |-> "error", val |-> what], via |-> via]

\* send_json setting the CORS header on the 200 path only
send_json_no_cors_on_error(data, status) ==
    [status |-> status, ctype |-> "application/json",
     cors |-> IF status = 200 THEN "*" ELSE "",
     body |-> data, via |-> "send_json"]

send_json(data, status) ==
    [status |-> status, ctype |-> "application/json", cors |-> "*",
     body |-> data, via |-> "send_json"]

\* serve_file without its content-type branches
serve_file_html_as_binary(filepath) ==
    CASE Kind(filepath) = "file" ->
            [status |-> 200, ctype |-> "application/octet-stream", cors |-> "",
             body |-> [type |-> "file", val |-> filepath], via |-> "serve_file"]
      [] Kind(filepath) = "absent" -> send_error(404, filepath, "serve_file")
      [] OTHER -> Raise

\* serve_file answering a missing file as a server error
serve_file_missing_as_500(filepath) ==
    CASE Kind(filepath) = "file" ->
            [status |-> 200,
             ctype |-> IF endswith(filepath, <<".","h","t","m","l">>) THEN "text/html; charset=utf-8"
                       ELSE IF endswith(filepath, <<".","c","s","s">>) THEN "text/css"
                       ELSE IF endswith(filepath, <<".","j","s">>) THEN "application/javascript"
                       ELSE "application/octet-stream",
             cors |-> "",
             body |-> [type |-> "file", val |-> filepath], via |-> "serve_file"]
      [] Kind(filepath) = "absent" -> send_error(500, filepath, "serve_file")
      [] OTHER -> Raise

\* open() raises FileNotFoundError for a missing path, which is caught, and
\* IsADirectoryError for a directory, which is not.
serve_file(filepath) ==
    CASE Kind(filepath) = "file" ->
            [status |-> 200,
             ctype |-> IF endswith(filepath, <<".","h","t","m","l">>) THEN "text/html; charset=utf-8"
                       ELSE IF endswith(filepath, <<".","c","s","s">>) THEN "text/css"
                       ELSE IF endswith(filepath, <<".","j","s">>) THEN "application/javascript"
                       ELSE "application/octet-stream",
             cors |-> "",
             body |-> [type |-> "file", val |-> filepath], via |-> "serve_file"]
      [] Kind(filepath) = "absent" -> send_error(404, filepath, "serve_file")
      [] OTHER -> Raise

\* super().do_GET(): SimpleHTTPRequestHandler serves the file the target names
\* below the working directory (translate_path drops the query and the leading
\* "/") with the type guess_type gives its extension; it redirects from a
\* directory named without its final "/", lists a directory that holds no
\* index.html, and answers 404 for any other path.
super_do_GET(target) ==
    LET f == Tail(CutAt(target, {"#", "?"}))
    IN  IF isdir(f)
        THEN IF ~endswith(f, <<"/">>)
             THEN [status |-> 301, ctype |-> "", cors |-> "",
                   body |-> [type |-> "redirect", val |-> f \o <<"/">>], via |-> "super"]
             ELSE [status |-> 200, ctype |-> "text/html; charset=utf-8", cors |-> "",
                   body |-> [type |-> "listing", val |-> f], via |-> "super"]
        ELSE IF Kind(f) = "file"
        THEN [status |-> 200,
              ctype |-> IF endswith(f, <<".","i","c","o">>) THEN "image/vnd.microsoft.icon"
                        ELSE IF endswith(f, <<".","h","t","m","l">>) THEN "text/html"
                        ELSE "application/octet-stream",
              cors |-> "",
              body |-> [type |-> "file", val |-> f], via |-> "super"]
        ELSE send_error(404, f, "super")

---------------------------------------------------------------------------
(* do_GET.                                                                 *)

NoTemplate == <<>>

\* The page routes without the last one
page_template_without_settings(path) ==
    IF path = <<"/">> \/ path = <<"/","i","n","d","e","x",".","h","t","m","l">> THEN <<"w","e","b","/","t","e","m","p","l","a","t","e","s","/","i","n","d","e","x",".","h","t","m","l">>
    ELSE IF path = <<"/","d","a","s","h","b","o","a","r","d">> THEN <<"w","e","b","/","t","e","m","p","l","a","t","e","s","/","d","a","s","h","b","o","a","r","d",".","h","t","m","l">>
    ELSE IF path = <<"/","d","e","v","i","c","e","s">> THEN <<"w","e","b","/","t","e","m","p","l","a","t","e","s","/","d","e","v","i","c","e","s",".","h","t","m","l">>
    ELSE IF startswith(path, <<"/","d","e","v","i","c","e","/">>) THEN <<"w","e","b","/","t","e","m","p","l","a","t","e","s","/","d","e","v","i","c","e","-","d","e","t","a","i","l",".","h","t","m","l">>
    ELSE IF path = <<"/","p","r","o","v","i","s","i","o","n","s">> THEN <<"w","e","b","/","t","e","m","p","l","a","t","e","s","/","p","r","o","v","i","s","i","o","n","s",".","h","t","m","l">>
    ELSE IF path = <<"/","m","a","p">> THEN <<"w","e","b","/","t","e","m","p","l","a","t","e","s","/","m","a","p",".","h","t","m","l">>
    ELSE IF path = <<"/","c","u","s","t","o","m","e","r","s">> THEN <<"w","e","b","/","t","e","m","p","l","a","t","e","s","/","c","u","s","t","o","m","e","r","s",".","h","t","m","l">>
    ELSE IF path = <<"/","b","i","l","l","i","n","g">> THEN <<"w","e","b","/","t","e","m","p","l","a","t","e","s","/","b","i","l","l","i","n","g",".","h","t","m","l">>
    ELSE IF path = <<"/","p","o","r","t","a","l">> \/ path = <<"/","p","o","r","t","a","l","/">> THEN <<"w","e","b","/","t","e","m","p","l","a","t","e","s","/","p","o","r","t","a","l",".","h","t","m","l">>
    ELSE IF path = <<"/","p","o","r","t","a","l","/","l","o","g","i","n">> THEN <<"w","e","b","/","t","e","m","p","l","a","t","e","s","/","p","o","r","t","a","l","-","l","o","g","i","n",".","h","t","m","l">>
    ELSE IF path = <<"/","p","a","c","k","a","g","e","s">> THEN <<"w","e","b","/","t","e","m","p","l","a","t","e","s","/","p","a","c","k","a","g","e","s",".","h","t","m","l">>
    ELSE IF path = <<"/","t","a","s","k","s">> THEN <<"w","e","b","/","t","e","m","p","l","a","t","e","s","/","t","a","s","k","s",".","h","t","m","l">>
    ELSE IF path = <<"/","l","o","g","s">> THEN <<"w","e","b","/","t","e","m","p","l","a","t","e","s","/","l","o","g","s",".","h","t","m","l">>
    ELSE NoTemplate

\* The page routes (lines 20-47): the template of a path, or NoTemplate.
page_template(path) ==
    IF path = <<"/">> \/ path = <<"/","i","n","d","e","x",".","h","t","m","l">> THEN <<"w","e","b","/","t","e","m","p","l","a","t","e","s","/","i","n","d","e","x",".","h","t","m","l">>
    ELSE IF path = <<"/","d","a","s","h","b","o","a","r","d">> THEN <<"w","e","b","/","t","e","m","p","l","a","t","e","s","/","d","a","s","h","b","o","a","r","d",".","h","t","m","l">>
    ELSE IF path = <<"/","d","e","v","i","c","e","s">> THEN <<"w","e","b","/","t","e","m","p","l","a","t","e","s","/","d","e","v","i","c","e","s",".","h","t","m","l">>
    ELSE IF startswith(path, <<"/","d","e","v","i","c","e","/">>) THEN <<"w","e","b","/","t","e","m","p","l","a","t","e","s","/","d","e","v","i","c","e","-","d","e","t","a","i","l",".","h","t","m","l">>
    ELSE IF path = <<"/","p","r","o","v","i","s","i","o","n","s">> THEN <<"w","e","b","/","t","e","m","p","l","a","t","e","s","/","p","r","o","v","i","s","i","o","n","s",".","h","t","m","l">>
    ELSE IF path = <<"/","m","a","p">> THEN <<"w","e","b","/","t","e","m","p","l","a","t","e","s","/","m","a","p",".","h","t","m","l">>
    ELSE IF path = <<"/","c","u","s","t","o","m","e","r","s">> THEN <<"w","e","b","/","t","e","m","p","l","a","t","e","s","/","c","u","s","t","o","m","e","r","s",".","h","t","m","l">>
    ELSE IF path = <<"/","b","i","l","l","i","n","g">> THEN <<"w","e","b","/","t","e","m","p","l","a","t","e","s","/","b","i","l","l","i","n","g",".","h","t","m","l">>
    ELSE IF path = <<"/","p","o","r","t","a","l">> \/ path = <<"/","p","o","r","t","a","l","/">> THEN <<"w","e","b","/","t","e","m","p","l","a","t","e","s","/","p","o","r","t","a","l",".","h","t","m","l">>
    ELSE IF path = <<"/","p","o","r","t","a","l","/","l","o","g","i","n">> THEN <<"w","e","b","/","t","e","m","p","l","a","t","e","s","/","p","o","r","t","a","l","-","l","o","g","i","n",".","h","t","m","l">>
    ELSE IF path = <<"/","p","a","c","k","a","g","e","s">> THEN <<"w","e","b","/","t","e","m","p","l","a","t","e","s","/","p","a","c","k","a","g","e","s",".","h","t","m","l">>
    ELSE IF path = <<"/","t","a","s","k","s">> THEN <<"w","e","b","/","t","e","m","p","l","a","t","e","s","/","t","a","s","k","s",".","h","t","m","l">>
    ELSE IF path = <<"/","l","o","g","s">> THEN <<"w","e","b","/","t","e","m","p","l","a","t","e","s","/","l","o","g","s",".","h","t","m","l">>
    ELSE IF path = <<"/","s","e","t","t","i","n","g","s">> THEN <<"w","e","b","/","t","e","m","p","l","a","t","e","s","/","s","e","t","t","i","n","g","s",".","h","t","m","l">>
    ELSE NoTemplate

\* The static route (lines 50-55).
static_file(path) ==
    LET file_path == <<"w","e","b">> \o path
    IN  IF exists(file_path) THEN serve_file(file_path)
        ELSE send_error(404, file_path, "send_error")

dashboard_stats ==
    [totalDevices |-> 5, onlineDevices |-> 3, offlineDevices |-> 2, pendingTasks |-> 1,
     devicesByModel |-> [HG8245H |-> 2, F660 |-> 2, AN5506 |-> 1]]

\* The records of the "devices" list of lines 73-79.
device_records ==
    <<
        [id |-> 1, serialNumber |-> "HWTC12345678", manufacturer |-> "Huawei",
         modelName |-> "HG8245H", status |-> "online", ipAddress |-> "192.168.1.1",
         lastContact |-> "2026-01-04T22:50:00Z", latitude |-> "-6.2088",
         longitude |-> "106.8456", address |-> "Jl. Sudirman No. 1, Jakarta"],
        [id |-> 2, serialNumber |-> "ZTEGC87654321", manufacturer |-> "ZTE",
         modelName |-> "F660", status |-> "online", ipAddress |-> "192.168.1.2",
         lastContact |-> "2026-01-04T22:45:00Z", latitude |-> "-6.1751",
         longitude |-> "106.865", address |-> "Jl. Thamrin No. 10, Jakarta"],
        [id |-> 3, serialNumber |-> "FHTT11223344", manufacturer |-> "FiberHome",
         modelName |-> "AN5506-04-F", status |-> "offline", ipAddress |-> "192.168.1.3",
         lastContact |-> "2026-01-04T20:00:00Z", latitude |-> "-6.2297",
         longitude |-> "106.8295", address |-> "Jl. Gatot Subroto No. 5, Jakarta"],
        [id |-> 4, serialNumber |-> "HWTC99887766", manufacturer |-> "Huawei",
         modelName |-> "HG8245H5", status |-> "online", ipAddress |-> "192.168.1.4",
         lastContact |-> "2026-01-04T22:52:00Z", latitude |-> "-6.1862",
         longitude |-> "106.8225", address |-> "Jl. Kebon Sirih No. 15, Jakarta"],
        [id |-> 5, serialNumber |-> "ZTEGC55443322", manufacturer |-> "ZTE",
         modelName |-> "F670L", status |-> "offline", ipAddress |-> "192.168.1.5",
         lastContact |-> "2026-01-04T18:00:00Z", latitude |-> "-6.2615",
         longitude |-> "106.8106", address |-> "Jl. TB Simatupang No. 22, Jakarta"] >>

\* The body of lines 72-81 with the last record dropped
devices_without_the_last ==
    [devices |-> SubSeq(device_records, 1, 4), total |-> 4]

devices ==
    [devices |-> device_records, total |-> 5]

wifi ==
    [ssid |-> "MyWiFi_Network", password |-> "password123", ssid5g |-> "MyWiFi_5G",
     password5g |-> "password123", channel |-> 6, enabled |-> TRUE]

wan ==
    <<
        [id |-> 1, name |-> "wan1_pppoe", connectionType |-> "PPPoE", status |-> "Connected",
         vlan |-> 100],
        [id |-> 2, name |-> "wan2_bridge", connectionType |-> "Bridge", status |-> "Connected",
         vlan |-> 200] >>

parameters ==
    <<
        [path |-> "InternetGatewayDevice.DeviceInfo.UpTime", value |-> "86400"],
        [path |-> "InternetGatewayDevice.DeviceInfo.SoftwareVersion", value |-> "V3R019C10S120"],
        [path |-> "InternetGatewayDevice.LANDevice.1.WLANConfiguration.1.SSID",
         value |-> "MyWiFi_Network"] >>

pon ==
    [rxPower |-> "-18.5", txPower |-> "2.3", onuId |-> 1, distance |-> "2.5",
     temperature |-> 45, voltage |-> "3.3", biasCurrent |-> 15]

clients ==
    [clients |-> <<
         [name |-> "iPhone 15 Pro", mac |-> "A4:B2:C1:D3:E5:F7", ip |-> "192.168.1.101",
          type |-> "phone", rssi |-> -45],
         [name |-> "MacBook Pro", mac |-> "B8:C3:D2:E4:F6:A1", ip |-> "192.168.1.102",
          type |-> "laptop", rssi |-> -52],
         [name |-> "Samsung Galaxy Tab", mac |-> "C6:D4:E3:F5:A2:B8", ip |-> "192.168.1.103",
          type |-> "tablet", rssi |-> -61],
         [name |-> "Smart TV", mac |-> "D7:E5:F4:A6:B3:C9", ip |-> "192.168.1.104",
          type |-> "tv", rssi |-> -38],
         [name |-> "Unknown Device", mac |-> "E8:F6:A5:B7:C4:D2", ip |-> "192.168.1.105",
          type |-> "other", rssi |-> -72] >>]

\* The device record of lines 130-140.
device_detail(id) ==
    [id |-> id, serialNumber |-> "HWTC12345678", manufacturer |-> "Huawei",
     modelName |-> "HG8245H", hardwareVersion |-> "V300R019",
     softwareVersion |-> "V3R019C10S120", status |-> "online",
     ipAddress |-> "192.168.1.1", lastContact |-> "2026-01-04T22:50:00Z"]

packages ==
    <<
        [id |-> 1, name |-> "Home Basic", description |-> "Basic internet",
         downloadSpeed |-> 10, uploadSpeed |-> 3, price |-> 150000, isActive |-> TRUE],
        [id |-> 2, name |-> "Home Standard", description |-> "Standard internet",
         downloadSpeed |-> 20, uploadSpeed |-> 5, price |-> 250000, isActive |-> TRUE],
        [id |-> 3, name |-> "Home Premium", description |-> "Premium internet",
         downloadSpeed |-> 50, uploadSpeed |-> 10, price |-> 400000, isActive |-> TRUE],
        [id |-> 4, name |-> "Business", description |-> "Business internet",
         downloadSpeed |-> 100, uploadSpeed |-> 20, price |-> 750000, isActive |-> TRUE] >>

customers ==
    [customers |-> <<
         [id |-> 1, customerCode |-> "CUST-0001", name |-> "John Doe",
          email |-> "john@email.com", phone |-> "08123456789", status |-> "active",
          packageId |-> 2, balance |-> 0],
         [id |-> 2, customerCode |-> "CUST-0002", name |-> "Ahmad Susanto",
          email |-> "ahmad@email.com", phone |-> "08234567890", status |-> "active",
          packageId |-> 3, balance |-> -250000],
         [id |-> 3, customerCode |-> "CUST-0003", name |-> "Budi Wijaya",
          email |-> "budi@email.com", phone |-> "08345678901", status |-> "suspended",
          packageId |-> 1, balance |-> -500000] >>,
     total |-> 3]

invoices ==
    [invoices |-> <<
         [id |-> 1, invoiceNo |-> "INV-202601-0001", customerId |-> 1, total |-> 250000,
          status |-> "paid", paidAmount |-> 250000, dueDate |-> "2026-01-15"],
         [id |-> 2, invoiceNo |-> "INV-202601-0002", customerId |-> 2, total |-> 400000,
          status |-> "pending", paidAmount |-> 0, dueDate |-> "2026-01-15"],
         [id |-> 3, invoiceNo |-> "INV-202601-0003", customerId |-> 3, total |-> 150000,
          status |-> "overdue", paidAmount |-> 0, dueDate |-> "2026-01-01"] >>,
     total |-> 3]

payments ==
    [payments |-> <<
         [id |-> 1, paymentNo |-> "PAY-202601-0001", customerId |-> 1, amount |-> 250000,
          paymentMethod |-> "transfer", status |-> "completed", paymentDate |-> "2026-01-03"],
         [id |-> 2, paymentNo |-> "PAY-202512-0015", customerId |-> 2, amount |-> 400000,
          paymentMethod |-> "cash", status |-> "completed", paymentDate |-> "2026-01-02"] >>,
     total |-> 2]

billing_stats ==
    [totalCustomers |-> 142, activeCustomers |-> 134, suspendedCustomers |-> 8,
     monthlyRevenue |-> 35500000, pendingInvoices |-> 23, overdueAmount |-> 2500000,
     todayPayments |-> 1750000]

\* The routes below /api/devices/ (lines 83-140), for a path with that prefix.
device_detail_route(path) ==
    LET device_id == last_segment(path)
    IN  IF isdigit(device_id)
        THEN IF int(device_id).ok
             THEN send_json(JObject(device_detail(int(device_id).value)), 200)
             ELSE Raise
        ELSE send_json(JObject(device_detail(1)), 200)

\* The routes below /api/devices/ with the catch-all branch tested first
device_routes_detail_first(path) == device_detail_route(path)

device_routes(path) ==
    IF endswith(path, <<"/","w","i","f","i">>) THEN send_json(JObject(wifi), 200)
    ELSE IF endswith(path, <<"/","w","a","n">>) THEN send_json(JArray(wan), 200)
    ELSE IF endswith(path, <<"/","p","a","r","a","m","e","t","e","r","s">>) THEN send_json(JArray(parameters), 200)
    ELSE IF endswith(path, <<"/","p","o","n">>) THEN send_json(JObject(pon), 200)
    ELSE IF endswith(path, <<"/","c","l","i","e","n","t","s">>) THEN send_json(JObject(clients), 200)
    ELSE device_detail_route(path)

\* do_GET (lines 15-196): the response to GET target.
GET_response(target) ==
    LET path == urlparse_path(target)
    IN  IF page_template(path) # NoTemplate THEN serve_file(page_template(path))
        ELSE IF startswith(path, <<"/","s","t","a","t","i","c","/">>) THEN static_file(path)
        ELSE IF path = <<"/","a","p","i","/","d","a","s","h","b","o","a","r","d","/","s","t","a","t","s">>
             THEN send_json(JObject(dashboard_stats), 200)
        ELSE IF path = <<"/","a","p","i","/","d","e","v","i","c","e","s">> THEN send_json(JObject(devices), 200)
        ELSE IF startswith(path, <<"/","a","p","i","/","d","e","v","i","c","e","s","/">>) THEN device_routes(path)
        ELSE IF path = <<"/","a","p","i","/","p","a","c","k","a","g","e","s">> THEN send_json(JArray(packages), 200)
        ELSE IF path = <<"/","a","p","i","/","c","u","s","t","o","m","e","r","s">> THEN send_json(JObject(customers), 200)
        ELSE IF path = <<"/","a","p","i","/","i","n","v","o","i","c","e","s">> THEN send_json(JObject(invoices), 200)
        ELSE IF path = <<"/","a","p","i","/","p","a","y","m","e","n","t","s">> THEN send_json(JObject(payments), 200)
        ELSE IF path = <<"/","a","p","i","/","b","i","l","l","i","n","g","/","s","t","a","t","s">>
             THEN send_json(JObject(billing_stats), 200)
        ELSE super_do_GET(target)

---------------------------------------------------------------------------
(* Request bodies.  A body is what json.loads makes of it: "empty" (no     *)
(* body, b'') and "invalid" (bytes that are no JSON text) make it raise;   *)
(* "array" is a JSON text that is a list; "object" is a dict, with the     *)
(* members given.  A member's value is a JSON string (its characters), a   *)
(* number, a list or a dict.                                               *)

JString(s) == [t |-> "str", s |-> s]
JNumber == [t |-> "num", s |-> <<"7">>]
JList == [t |-> "list", s |-> <<>>]
JDict == [t |-> "dict", s |-> <<>>]
None == [t |-> "None", s |-> <<>>]

NoMembers == [k \in {} |-> None]
EmptyBody == [kind |-> "empty", members |-> NoMembers]
InvalidBody == [kind |-> "invalid", members |-> NoMembers]
ArrayBody == [kind |-> "array", members |-> NoMembers]
ObjectBody(members) == [kind |-> "object", members |-> members]

\* json.loads(body) returns (ok) or raises
json_loads_ok(body) == body.kind \in {"array", "object"}
\* dict.get(key, default)
get(members, key, default) ==
    IF key \in DOMAIN members THEN members[key] ELSE default

---------------------------------------------------------------------------
(* do_POST and do_PUT.                                                     *)

login_ok ==
    [success |-> TRUE, token |-> "mock-jwt-token-12345",
     user |-> [username |-> "admin", role |-> "admin"]]

invalid_credentials ==
    [success |-> FALSE, error |-> "Invalid credentials"]

invalid_request ==
    [success |-> FALSE, error |-> "Invalid request"]

invalid_username_or_password ==
    [success |-> FALSE, error |-> "Invalid username or password"]

command_queued ==
    [success |-> TRUE, message |-> "Command queued"]

device_created ==
    [success |-> TRUE, id |-> 6]

success ==
    [success |-> TRUE]

updated ==
    [success |-> TRUE, message |-> "Updated"]

\* auth_login comparing the user name only
auth_login_any_password(body) ==
    IF ~json_loads_ok(body) \/ body.kind # "object"
    THEN send_json(JObject(invalid_request), 400)
    ELSE IF get(body.members, "username", None) = JString(<<"a","d","m","i","n">>)
         THEN send_json(JObject(login_ok), 200)
         ELSE send_json(JObject(invalid_credentials), 401)

\* POST /api/auth/login (lines 203-215).  json.loads raises on a body that is
\* no JSON text and data.get raises AttributeError on a list; the bare except
\* answers both with 400.
auth_login(body) ==
    IF ~json_loads_ok(body) \/ body.kind # "object"
    THEN send_json(JObject(invalid_request), 400)
    ELSE IF /\ get(body.members, "username", None) = JString(<<"a","d","m","i","n">>)
            /\ get(body.members, "password", None) = JString(<<"a","d","m","i","n","1","2","3">>)
         THEN send_json(JObject(login_ok), 200)
         ELSE send_json(JObject(invalid_credentials), 401)

\* valid_users (lines 222-227): its keys, and the record under a key
valid_user_names == {<<"j","o","h","n","d","o","e">>, <<"C","U","S","T","-","0","0","0","1">>, <<"a","h","m","a","d">>, <<"C","U","S","T","-","0","0","0","2">>}

\* valid_users with the two customer codes under the wrong customers
valid_users_codes_swapped(name) ==
    IF name \in {<<"j","o","h","n","d","o","e">>, <<"C","U","S","T","-","0","0","0","2">>}
    THEN [id |-> 1, code |-> "CUST-0001", name |-> "John Doe",
          password |-> <<"p","a","s","s","w","o","r","d","1","2","3">>]
    ELSE [id |-> 2, code |-> "CUST-0002", name |-> "Ahmad Susanto",
          password |-> <<"p","a","s","s","w","o","r","d","1","2","3">>]

valid_users(name) ==
    IF name \in {<<"j","o","h","n","d","o","e">>, <<"C","U","S","T","-","0","0","0","1">>}
    THEN [id |-> 1, code |-> "CUST-0001", name |-> "John Doe",
          password |-> <<"p","a","s","s","w","o","r","d","1","2","3">>]
    ELSE [id |-> 2, code |-> "CUST-0002", name |-> "Ahmad Susanto",
          password |-> <<"p","a","s","s","w","o","r","d","1","2","3">>]

\* POST /api/portal/auth/login (lines 218-247).  `username in valid_users`
\* hashes username: a list or a dict is unhashable and raises TypeError, which
\* the bare except answers with 400 like a body that is no JSON object.
portal_login(body) ==
    IF ~json_loads_ok(body) \/ body.kind # "object"
    THEN send_json(JObject(invalid_request), 400)
    ELSE LET username == get(body.members, "username", JString(<<>>))
             password == get(body.members, "password", JString(<<>>))
         IN  IF username.t \in {"list", "dict"}
             THEN send_json(JObject(invalid_request), 400)
             ELSE IF /\ username.t = "str"
                     /\ username.s \in valid_user_names
                     /\ JString(valid_users(username.s).password) = password
                  THEN LET user == valid_users(username.s)
                       IN  send_json(JObject(
                             [success |-> TRUE,
                              token |-> <<"c","u","s","t","o","m","e","r","-">> \o str(user.id) \o <<"-","m","o","c","k","-","t","o","k","e","n">>,
                              customer |->
                                [id |-> user.id,
                                 customerCode |-> user.code,
                                 name |-> user.name,
                                 email |-> lower(username.s) \o <<"@","e","m","a","i","l",".","c","o","m">>,
                                 status |-> "active"]]), 200)
                  ELSE send_json(JObject(invalid_username_or_password), 401)

\* POST /api/devices numbering the device after the requests served
create_device_counting ==
    send_json(JObject([success |-> TRUE, id |-> 6 + Len(served)]), 200)

\* POST /api/devices (lines 255-256)
create_device == send_json(JObject(device_created), 200)

\* do_POST (lines 198-259): the response to POST target with the body.
POST_response(target, body) ==
    LET path == urlparse_path(target)
    IN  IF path = <<"/","a","p","i","/","a","u","t","h","/","l","o","g","i","n">> THEN auth_login(body)
        ELSE IF path = <<"/","a","p","i","/","p","o","r","t","a","l","/","a","u","t","h","/","l","o","g","i","n">> THEN portal_login(body)
        ELSE IF path = <<"/","a","p","i","/","a","u","t","h","/","l","o","g","o","u","t">> \/ path = <<"/","a","p","i","/","p","o","r","t","a","l","/","a","u","t","h","/","l","o","g","o","u","t">>
             THEN send_json(JObject(success), 200)
        ELSE IF contains(path, <<"/","r","e","b","o","o","t">>) \/ contains(path, <<"/","r","e","f","r","e","s","h">>)
             THEN send_json(JObject(command_queued), 200)
        ELSE IF path = <<"/","a","p","i","/","d","e","v","i","c","e","s">> THEN create_device
        ELSE send_json(JObject(success), 200)

\* do_PUT (lines 261-262)
PUT_response == send_json(JObject(updated), 200)

---------------------------------------------------------------------------
(* The requests of the model.                                              *)

GetTargets == {
    <<"/">>, <<"/","i","n","d","e","x",".","h","t","m","l">>, <<"/","d","a","s","h","b","o","a","r","d">>, <<"/","d","a","s","h","b","o","a","r","d","?","t","a","b","=","1">>, <<"/","d","a","s","h","b","o","a","r","d","/">>,
    <<"/","d","e","v","i","c","e","s">>, <<"/","d","e","v","i","c","e","/","7">>, <<"/","d","e","v","i","c","e","/">>, <<"/","d","e","v","i","c","e">>, <<"/","p","r","o","v","i","s","i","o","n","s">>,
    <<"/","m","a","p">>, <<"/","c","u","s","t","o","m","e","r","s">>, <<"/","b","i","l","l","i","n","g">>, <<"/","p","o","r","t","a","l">>, <<"/","p","o","r","t","a","l","/">>,
    <<"/","p","o","r","t","a","l","/","l","o","g","i","n">>, <<"/","p","a","c","k","a","g","e","s">>, <<"/","t","a","s","k","s">>, <<"/","l","o","g","s">>, <<"/","s","e","t","t","i","n","g","s">>,
    <<"/","s","t","a","t","i","c","/","c","s","s","/","s","t","y","l","e",".","c","s","s">>, <<"/","s","t","a","t","i","c","/","a","p","p",".","j","s">>, <<"/","s","t","a","t","i","c","/">>, <<"/","s","t","a","t","i","c">>,
    <<"/","s","t","a","t","i","c","/","c","s","s">>,
    <<"/","a","p","i","/","d","a","s","h","b","o","a","r","d","/","s","t","a","t","s">>, <<"/","a","p","i","/","d","e","v","i","c","e","s">>, <<"/","a","p","i","/","d","e","v","i","c","e","s","?","p","a","g","e","=","2">>,
    <<"/","a","p","i","/","d","e","v","i","c","e","s","/">>, <<"/","a","p","i","/","d","e","v","i","c","e","s","/","7">>, <<"/","a","p","i","/","d","e","v","i","c","e","s","/","4","2">>,
    <<"/","a","p","i","/","d","e","v","i","c","e","s","/","0","0","7">>, <<"/","a","p","i","/","d","e","v","i","c","e","s","/","a","b","c">>, <<"/","a","p","i","/","d","e","v","i","c","e","s","/","7","a">>,
    <<"/","a","p","i","/","d","e","v","i","c","e","s","/","7","/">>, <<"/","a","p","i","/","d","e","v","i","c","e","s","/","3","/","9">>, <<"/","a","p","i","/","d","e","v","i","c","e","s","/","7","?","x","=","1">>,
    <<"/","a","p","i","/","d","e","v","i","c","e","s","/","sup2">>,
    <<"/","a","p","i","/","d","e","v","i","c","e","s","/","7","/","w","i","f","i">>, <<"/","a","p","i","/","d","e","v","i","c","e","s","/","a","b","c","/","w","i","f","i">>, <<"/","a","p","i","/","d","e","v","i","c","e","s","/","/","w","i","f","i">>,
    <<"/","a","p","i","/","d","e","v","i","c","e","s","/","1","/","2","/","w","i","f","i">>, <<"/","a","p","i","/","d","e","v","i","c","e","s","/","7","/","w","i","f","i","?","b","a","n","d","=","5">>,
    <<"/","a","p","i","/","d","e","v","i","c","e","s","/","7","/","w","i","f","i",";","v","=","1">>, <<"/","a","p","i","/","d","e","v","i","c","e","s","/","7","/","w","i","f","i","/">>,
    <<"/","a","p","i","/","d","e","v","i","c","e","s","/","7","/","w","a","n">>, <<"/","a","p","i","/","d","e","v","i","c","e","s","/","7","/","p","a","r","a","m","e","t","e","r","s">>,
    <<"/","a","p","i","/","d","e","v","i","c","e","s","/","7","/","p","o","n">>, <<"/","a","p","i","/","d","e","v","i","c","e","s","/","7","/","c","l","i","e","n","t","s">>,
    <<"/","a","p","i","/","d","e","v","i","c","e","s","/","7","/","c","l","i","e","n","t","s","/","2">>,
    <<"/","a","p","i","/","p","a","c","k","a","g","e","s">>, <<"/","a","p","i","/","c","u","s","t","o","m","e","r","s">>, <<"/","a","p","i","/","i","n","v","o","i","c","e","s">>, <<"/","a","p","i","/","p","a","y","m","e","n","t","s">>,
    <<"/","a","p","i","/","b","i","l","l","i","n","g","/","s","t","a","t","s">>, <<"/","a","p","i","/","u","n","k","n","o","w","n">>, <<"/","a","p","i">>, <<"/","f","a","v","i","c","o","n",".","i","c","o">>,
    <<"/","f","a","v","i","c","o","n",".","i","c","o","?","v","=","2">>, <<"/","w","e","b","/","s","t","a","t","i","c","/">>, <<"/","w","e","b","/","s","t","a","t","i","c">>, <<"/","w","e","b","/","s","t","a","t","i","c","/","c","s","s">>,
    <<"/","w","e","b","/">>, <<"/","w","e","b">>, <<"/","w","e","b","/","t","e","m","p","l","a","t","e","s">>, <<"/","w","e","b","/","t","e","m","p","l","a","t","e","s","/","d","a","s","h","b","o","a","r","d",".","h","t","m","l">>,
    <<"/","n","o","p","e">> }

UserValues == {
    JString(<<"a","d","m","i","n">>), JString(<<"j","o","h","n","d","o","e">>), JString(<<"C","U","S","T","-","0","0","0","1">>),
    JString(<<"a","h","m","a","d">>), JString(<<"C","U","S","T","-","0","0","0","2">>), JString(<<"b","o","b">>),
    JNumber, JList, JDict }
PasswordValues == {
    JString(<<"a","d","m","i","n","1","2","3">>), JString(<<"p","a","s","s","w","o","r","d","1","2","3">>), JString(<<"w","r","o","n","g">>) }

\* The dicts with a username or not and a password or not.
ObjectBodies ==
    {ObjectBody([k \in {"username", "password"} |->
                    IF k = "username" THEN u ELSE p]) :
        u \in UserValues, p \in PasswordValues}
    \cup {ObjectBody([k \in {"username"} |-> u]) : u \in UserValues}
    \cup {ObjectBody([k \in {"password"} |-> p]) : p \in PasswordValues}
    \cup {ObjectBody(NoMembers)}

LoginBodies == ObjectBodies \cup {EmptyBody, InvalidBody, ArrayBody}

LoginTargets == {<<"/","a","p","i","/","a","u","t","h","/","l","o","g","i","n">>, <<"/","a","p","i","/","p","o","r","t","a","l","/","a","u","t","h","/","l","o","g","i","n">>}
OtherPostTargets == {
    <<"/","a","p","i","/","a","u","t","h","/","l","o","g","o","u","t">>, <<"/","a","p","i","/","p","o","r","t","a","l","/","a","u","t","h","/","l","o","g","o","u","t">>, <<"/","a","p","i","/","d","e","v","i","c","e","s">>,
    <<"/","a","p","i","/","d","e","v","i","c","e","s","/","7","/","r","e","b","o","o","t">>, <<"/","a","p","i","/","d","e","v","i","c","e","s","/","7","/","r","e","f","r","e","s","h","?","f","o","r","c","e","=","1">>,
    <<"/","a","p","i","/","c","u","s","t","o","m","e","r","s">>, <<"/","a","p","i","/","a","u","t","h","/","l","o","g","i","n","/">> }
PutTargets == {<<"/","a","p","i","/","d","e","v","i","c","e","s","/","7">>, <<"/","a","p","i","/","a","u","t","h","/","l","o","g","i","n">>}

Request(method, target, body) ==
    [method |-> method, target |-> target, body |-> body]

GetRequests == {Request("GET", t, EmptyBody) : t \in GetTargets}
PostRequests ==
    {Request("POST", t, b) : t \in LoginTargets, b \in LoginBodies}
    \cup {Request("POST", t, b) : t \in OtherPostTargets,
                                  b \in {EmptyBody, ObjectBody(NoMembers)}}
PutRequests ==
    {Request("PUT", t, b) : t \in PutTargets, b \in {EmptyBody, ObjectBody(NoMembers)}}

AdminLogin ==
    ObjectBody([k \in {"username", "password"} |->
                   IF k = "username" THEN JString(<<"a","d","m","i","n">>)
                   ELSE JString(<<"a","d","m","i","n","1","2","3">>)])

\* The requests of SpecSeq, which serves them repeatedly.
RepeatRequests == {
    Request("GET", <<"/","a","p","i","/","d","e","v","i","c","e","s">>, EmptyBody),
    Request("GET", <<"/","a","p","i","/","d","e","v","i","c","e","s","/","7">>, EmptyBody),
    Request("GET", <<"/","d","a","s","h","b","o","a","r","d">>, EmptyBody),
    Request("GET", <<"/","s","t","a","t","i","c","/","c","s","s","/","s","t","y","l","e",".","c","s","s">>, EmptyBody),
    Request("GET", <<"/","f","a","v","i","c","o","n",".","i","c","o">>, EmptyBody),
    Request("POST", <<"/","a","p","i","/","d","e","v","i","c","e","s">>, ObjectBody(NoMembers)),
    Request("POST", <<"/","a","p","i","/","a","u","t","h","/","l","o","g","i","n">>, AdminLogin),
    Request("POST", <<"/","a","p","i","/","a","u","t","h","/","l","o","g","i","n">>, EmptyBody),
    Request("POST", <<"/","a","p","i","/","a","u","t","h","/","l","o","g","o","u","t">>, EmptyBody),
    Request("POST", <<"/","a","p","i","/","d","e","v","i","c","e","s","/","7","/","r","e","b","o","o","t">>, EmptyBody),
    Request("PUT", <<"/","a","p","i","/","d","e","v","i","c","e","s","/","7">>, ObjectBody(NoMembers)) }

---------------------------------------------------------------------------
(* The server: each handler serves one request and sends its response.     *)

Init ==
    /\ fs \in Disks
    /\ served = <<>>

Exchange(req, resp) == [req |-> req, resp |-> resp]

do_GET(limit, req) ==
    /\ Len(served) < limit
    /\ req.method = "GET"
    /\ served' = Append(served, Exchange(req, GET_response(req.target)))
    /\ UNCHANGED fs

do_POST(limit, req) ==
    /\ Len(served) < limit
    /\ req.method = "POST"
    /\ served' = Append(served, Exchange(req, POST_response(req.target, req.body)))
    /\ UNCHANGED fs

do_PUT(limit, req) ==
    /\ Len(served) < limit
    /\ req.method = "PUT"
    /\ served' = Append(served, Exchange(req, PUT_response))
    /\ UNCHANGED fs

Next ==
    \/ \E req \in GetRequests : do_GET(MaxRequests, req)
    \/ \E req \in PostRequests : do_POST(MaxRequests, req)
    \/ \E req \in PutRequests : do_PUT(MaxRequests, req)

Spec == Init /\ [][Next]_vars

NextSeq ==
    \/ \E req \in RepeatRequests : do_GET(MaxRepeat, req)
    \/ \E req \in RepeatRequests : do_POST(MaxRepeat, req)
    \/ \E req \in RepeatRequests : do_PUT(MaxRepeat, req)

SpecSeq == Init /\ [][NextSeq]_vars

---------------------------------------------------------------------------
(* Properties.                                                             *)

IsGet(x, target) == x.req.method = "GET" /\ x.req.target = target
IsPost(x, target) == x.req.method = "POST" /\ x.req.target = target
Has(members, key, value) == key \in DOMAIN members /\ members[key] = value

\* The body is a JSON object carrying the administrator's credentials.
AdminCredentials(body) ==
    /\ body.kind = "object"
    /\ Has(body.members, "username", JString(<<"a","d","m","i","n">>))
    /\ Has(body.members, "password", JString(<<"a","d","m","i","n","1","2","3">>))

\* The body is a JSON object carrying a customer's credentials.
CustomerNames == {<<"j","o","h","n","d","o","e">>, <<"C","U","S","T","-","0","0","0","1">>, <<"a","h","m","a","d">>, <<"C","U","S","T","-","0","0","0","2">>}
CustomerCredentials(body) ==
    /\ body.kind = "object"
    /\ \E n \in CustomerNames : Has(body.members, "username", JString(n))
    /\ Has(body.members, "password", JString(<<"p","a","s","s","w","o","r","d","1","2","3">>))
\* The body is a JSON object whose username is a JSON array or object.
UnhashableUsername(body) ==
    /\ body.kind = "object"
    /\ Has(body.members, "username", JList) \/ Has(body.members, "username", JDict)

LoginGranted(resp) ==
    /\ resp.status = 200
    /\ resp.body.type = "object"
    /\ resp.body.val.success = TRUE
    /\ {"token", "user"} \subseteq DOMAIN resp.body.val
LoginRefused(resp, status) ==
    /\ resp.status = status
    /\ resp.body.type = "object"
    /\ resp.body.val.success = FALSE

\* C1 as stated: POST /api/auth/login answers admin/admin123 with 200,
\* success = true, a token and a user, and every other body with 401 and
\* success = false.
C1_AnyOtherBodyIs401 ==
    \A i \in DOMAIN served :
        LET x == served[i]
        IN  IsPost(x, <<"/","a","p","i","/","a","u","t","h","/","l","o","g","i","n">>) =>
                IF AdminCredentials(x.req.body) THEN LoginGranted(x.resp)
                ELSE LoginRefused(x.resp, 401)

\* C1 amended: POST /api/auth/login answers admin/admin123 with 200,
\* success = true, a token and a user; every other body that is a JSON object
\* with 401 and success = false; a body that is no JSON object (no JSON text,
\* or a JSON text of another type) with 400 and success = false.
C1_AdminLogin ==
    \A i \in DOMAIN served :
        LET x == served[i]
        IN  IsPost(x, <<"/","a","p","i","/","a","u","t","h","/","l","o","g","i","n">>) =>
                IF AdminCredentials(x.req.body) THEN LoginGranted(x.resp)
                ELSE IF x.req.body.kind = "object" THEN LoginRefused(x.resp, 401)
                ELSE LoginRefused(x.resp, 400)

\* An administrator login with the right user name and a wrong password was
\* refused with 401.
C1_Witness ==
    \E i \in DOMAIN served :
        /\ IsPost(served[i], <<"/","a","p","i","/","a","u","t","h","/","l","o","g","i","n">>)
        /\ Has(served[i].req.body.members, "username", JString(<<"a","d","m","i","n">>))
        /\ Has(served[i].req.body.members, "password", JString(<<"w","r","o","n","g">>))
        /\ served[i].resp.status = 401

\* C2 as stated: the body of GET /api/devices is a JSON array of exactly 5
\* device records.
C2_BodyIsArrayOfFive ==
    \A i \in DOMAIN served :
        LET x == served[i]
        IN  IsGet(x, <<"/","a","p","i","/","d","e","v","i","c","e","s">>) =>
                /\ x.resp.status = 200
                /\ x.resp.body.type = "array"
                /\ Len(x.resp.body.val) = 5

\* C2 amended: the body of GET /api/devices is a JSON object with two members:
\* "devices", an array of exactly 5 device records (ids 1 to 5), and "total",
\* which is 5.
C2_DevicesObject ==
    \A i \in DOMAIN served :
        LET x == served[i]
        IN  IsGet(x, <<"/","a","p","i","/","d","e","v","i","c","e","s">>) =>
                /\ x.resp.status = 200
                /\ x.resp.body.type = "object"
                /\ DOMAIN x.resp.body.val = {"devices", "total"}
                /\ Len(x.resp.body.val.devices) = 5
                /\ \A k \in 1..5 : x.resp.body.val.devices[k].id = k
                /\ x.resp.body.val.total = 5

\* GET /api/devices was served, with a JSON body.
C2_Witness ==
    \E i \in DOMAIN served :
        /\ IsGet(served[i], <<"/","a","p","i","/","d","e","v","i","c","e","s">>)
        /\ served[i].resp.via = "send_json"

IsLogin(x) ==
    x.req.method = "POST" /\ x.req.target \in {<<"/","a","p","i","/","a","u","t","h","/","l","o","g","i","n">>, <<"/","a","p","i","/","p","o","r","t","a","l","/","a","u","t","h","/","l","o","g","i","n">>}
IsPortalLogin(x) == IsPost(x, <<"/","a","p","i","/","p","o","r","t","a","l","/","a","u","t","h","/","l","o","g","i","n">>)
\* The response came from looking a file up on the disk.
FileLookup(x) == x.resp.via \in {"serve_file", "send_error", "super"}

WifiTarget(t) ==
    \E k \in 18..Len(t) :
        /\ SubSeq(t, 1, 13) = <<"/","a","p","i","/","d","e","v","i","c","e","s","/">>
        /\ SubSeq(t, k - 4, k) = <<"/","w","i","f","i">>
        /\ \A j \in 1..k : t[j] \notin {"?", "#", ";"}
        /\ k = Len(t) \/ t[k + 1] = "?"

\* C4: GET /api/devices/<id>/wifi returns the same fixed WiFi object for every
\* <id> (numeric or not, empty, or with further "/" segments) and every query
\* string: no other route captures the path first.
C4_WifiForAnyId ==
    \A i \in DOMAIN served :
        LET x == served[i]
        IN  (x.req.method = "GET" /\ WifiTarget(x.req.target)) =>
                /\ x.resp.status = 200
                /\ x.resp.body.type = "object"
                /\ x.resp.body.val = wifi

\* The WiFi object was served for an empty <id>.
C4_Witness ==
    \E i \in DOMAIN served :
        /\ IsGet(served[i], <<"/","a","p","i","/","d","e","v","i","c","e","s","/","/","w","i","f","i">>)
        /\ served[i].resp.status = 200

\* C5: a response depends only on its request: a request served again, after
\* any requests in between, gets the response it got the first time, and
\* GET /api/devices lists the same 5 devices after any POST or PUT.
C5_SameRequestSameResponse ==
    /\ \A i, j \in DOMAIN served :
           served[i].req = served[j].req => served[i].resp = served[j].resp
    /\ \A i \in DOMAIN served :
           IsGet(served[i], <<"/","a","p","i","/","d","e","v","i","c","e","s">>) =>
               /\ served[i].resp.body.type = "object"
               /\ Len(served[i].resp.body.val.devices) = 5

\* POST /api/devices was served twice and GET /api/devices after them.
C5_Witness ==
    /\ Len(served) >= 3
    /\ IsPost(served[1], <<"/","a","p","i","/","d","e","v","i","c","e","s">>)
    /\ IsPost(served[2], <<"/","a","p","i","/","d","e","v","i","c","e","s">>)
    /\ IsGet(served[3], <<"/","a","p","i","/","d","e","v","i","c","e","s">>)

\* C6: every response with a JSON body carries Access-Control-Allow-Origin: *,
\* whatever the method, the path and the status (200, 400 or 401).
C6_JsonHasCors ==
    \A i \in DOMAIN served :
        served[i].resp.body.type \in {"object", "array"} =>
            served[i].resp.cors = "*"

\* A JSON response with status 400 was sent, with the header.
C6_Witness ==
    \E i \in DOMAIN served :
        /\ served[i].resp.status = 400
        /\ served[i].resp.body.type = "object"
        /\ served[i].resp.cors = "*"

PagePaths == {
    <<"/">>, <<"/","i","n","d","e","x",".","h","t","m","l">>, <<"/","d","a","s","h","b","o","a","r","d">>, <<"/","d","e","v","i","c","e","s">>, <<"/","p","r","o","v","i","s","i","o","n","s">>, <<"/","m","a","p">>,
    <<"/","c","u","s","t","o","m","e","r","s">>, <<"/","b","i","l","l","i","n","g">>, <<"/","p","o","r","t","a","l">>, <<"/","p","o","r","t","a","l","/">>, <<"/","p","o","r","t","a","l","/","l","o","g","i","n">>,
    <<"/","p","a","c","k","a","g","e","s">>, <<"/","t","a","s","k","s">>, <<"/","l","o","g","s">>, <<"/","s","e","t","t","i","n","g","s">> }
ApiPaths == {
    <<"/","a","p","i","/","d","a","s","h","b","o","a","r","d","/","s","t","a","t","s">>, <<"/","a","p","i","/","d","e","v","i","c","e","s">>, <<"/","a","p","i","/","p","a","c","k","a","g","e","s">>,
    <<"/","a","p","i","/","c","u","s","t","o","m","e","r","s">>, <<"/","a","p","i","/","i","n","v","o","i","c","e","s">>, <<"/","a","p","i","/","p","a","y","m","e","n","t","s">>, <<"/","a","p","i","/","b","i","l","l","i","n","g","/","s","t","a","t","s">> }
\* The path matches a page route, the /static/ prefix or an /api route.
ListedRoute(path) ==
    \/ path \in PagePaths \cup ApiPaths
    \/ \E prefix \in {<<"/","d","e","v","i","c","e","/">>, <<"/","s","t","a","t","i","c","/">>, <<"/","a","p","i","/","d","e","v","i","c","e","s","/">>} :
           startswith(path, prefix)

\* C7: a GET goes to the default static-file handler exactly when its path
\* matches no page route, no /static/ prefix and no /api route, and the default
\* handler answers 404 when the file is not on the disk.
C7_UnknownPathFallsThrough ==
    \A i \in DOMAIN served :
        LET x == served[i]
        IN  x.req.method = "GET" =>
                /\ x.resp.via = "super" <=> ~ListedRoute(urlparse_path(x.req.target))
                /\ (x.resp.via = "super" /\ ~exists(Tail(CutAt(x.req.target, {"?"}))))
                       => x.resp.status = 404

\* GET /nope went to the default handler, which answered 404.
C7_Witness ==
    \E i \in DOMAIN served :
        /\ IsGet(served[i], <<"/","n","o","p","e">>)
        /\ served[i].resp.via = "super"
        /\ served[i].resp.status = 404

\* C8: GET /dashboard returns 200 with content type text/html.
C8_DashboardIsHtml ==
    \A i \in DOMAIN served :
        (/\ served[i].req.method = "GET"
         /\ urlparse_path(served[i].req.target) = <<"/","d","a","s","h","b","o","a","r","d">>) =>
            /\ served[i].resp.status = 200
            /\ served[i].resp.ctype = "text/html; charset=utf-8"

\* GET /dashboard was served from its template.
C8_Witness ==
    \E i \in DOMAIN served :
        /\ IsGet(served[i], <<"/","d","a","s","h","b","o","a","r","d">>)
        /\ served[i].resp.body = [type |-> "file", val |-> <<"w","e","b","/","t","e","m","p","l","a","t","e","s","/","d","a","s","h","b","o","a","r","d",".","h","t","m","l">>]

AllDecimal(s) ==
    Len(s) > 0 /\ \A k \in 1..Len(s) : s[k] \in {"0","1","2","3","4","5","6","7","8","9"}

\* C9: a GET below /api/devices/ whose path ends with none of /wifi, /wan,
\* /parameters, /pon, /clients returns the device-detail record whose id is the
\* value of the last path segment when that is all digits, and 1 otherwise.
C9_DetailIdFromLastSegment ==
    \A i \in DOMAIN served :
        LET x == served[i]
            path == urlparse_path(x.req.target)
            segment == last_segment(path)
        IN  (/\ x.req.method = "GET"
             /\ startswith(path, <<"/","a","p","i","/","d","e","v","i","c","e","s","/">>)
             /\ \A suffix \in {<<"/","w","i","f","i">>, <<"/","w","a","n">>, <<"/","p","a","r","a","m","e","t","e","r","s">>, <<"/","p","o","n">>, <<"/","c","l","i","e","n","t","s">>} :
                    ~endswith(path, suffix)) =>
                /\ x.resp.status = 200
                /\ x.resp.body.type = "object"
                /\ x.resp.body.val =
                       device_detail(IF AllDecimal(segment) THEN DecimalValue(segment) ELSE 1)

PortalGranted(resp, id, code) ==
    /\ resp.status = 200
    /\ resp.body.type = "object"
    /\ resp.body.val.success = TRUE
    /\ resp.body.val.token = (IF id = 1 THEN <<"c","u","s","t","o","m","e","r","-","1","-","m","o","c","k","-","t","o","k","e","n">>
                              ELSE <<"c","u","s","t","o","m","e","r","-","2","-","m","o","c","k","-","t","o","k","e","n">>)
    /\ resp.body.val.customer.id = id
    /\ resp.body.val.customer.customerCode = code

CustomerOf(body) ==
    IF body.members.username.s \in {<<"j","o","h","n","d","o","e">>, <<"C","U","S","T","-","0","0","0","1">>} THEN 1 ELSE 2

\* C10 as stated: POST /api/portal/auth/login answers 200 exactly for
\* johndoe, CUST-0001 (customer 1), ahmad, CUST-0002 (customer 2) with
\* password123, with the token and the customerCode of the customer; every
\* other JSON-object body gets 401 and a body that is no JSON object 400.
C10_OtherObjectsAre401 ==
    \A i \in DOMAIN served :
        LET x == served[i]
        IN  IsPortalLogin(x) =>
                IF x.req.body.kind # "object" THEN LoginRefused(x.resp, 400)
                ELSE IF CustomerCredentials(x.req.body)
                THEN PortalGranted(x.resp, CustomerOf(x.req.body),
                         IF CustomerOf(x.req.body) = 1 THEN "CUST-0001" ELSE "CUST-0002")
                ELSE LoginRefused(x.resp, 401)

\* C10 amended: as stated, except that a JSON-object body whose username is a
\* JSON array or object gets 400, like a body that is no JSON object.
C10_PortalLogin ==
    \A i \in DOMAIN served :
        LET x == served[i]
        IN  IsPortalLogin(x) =>
                IF x.req.body.kind # "object" \/ UnhashableUsername(x.req.body)
                THEN LoginRefused(x.resp, 400)
                ELSE IF CustomerCredentials(x.req.body)
                THEN PortalGranted(x.resp, CustomerOf(x.req.body),
                         IF CustomerOf(x.req.body) = 1 THEN "CUST-0001" ELSE "CUST-0002")
                ELSE LoginRefused(x.resp, 401)

\* The customer code CUST-0002 logged in and got the token of customer 2.
C10_Witness ==
    \E i \in DOMAIN served :
        /\ IsPortalLogin(served[i])
        /\ Has(served[i].req.body.members, "username", JString(<<"C","U","S","T","-","0","0","0","2">>))
        /\ served[i].resp.status = 200
        /\ served[i].resp.body.val.token = <<"c","u","s","t","o","m","e","r","-","2","-","m","o","c","k","-","t","o","k","e","n">>

=============================================================================
